---- MODULE Spec2Model ----
(***************************************************************************)
(* The speed test server and its frontend: the per-client rate limiter     *)
(* (backend/middleware.go) with the admission gate withRateLimit around    *)
(* it, the routes main registers, the download and upload handlers         *)
(* (main.go), and the run of a speed test in the SpeedTest component.      *)
(*                                                                         *)
(* Limiter: time is counted in whole seconds.  Each goroutine of Procs     *)
(* serves one request at a time; a request walks through withRateLimit,    *)
(* which calls isAllowed, which calls clean (first critical section) and   *)
(* then appends and decides (second critical section).                     *)
(***************************************************************************)
EXTENDS Integers, Sequences, FiniteSets, TLC

\* ---------------------------------------------------------------- constants
\* `len(rl.requests[ip]) <= 60`: the request cap of one identity.
Limit == 60
\* `now.Add(-time.Minute)`: the length of the window, in seconds.
Window == 60

\* const downloadSize = 10 * 1024 * 1024
downloadSize == 10 * 1024 * 1024
\* buffer := make([]byte, 1024)
BufferLen == 1024

\* ------------------------------------------------------------------- bounds
\* Requests served step by step (each one interleaves with the others).
MaxCalls == 2
\* The last second of the run: the clock stops advancing there.
MaxClock == 119

\* The reads a request body is delivered in, at most.
MaxReads == 3

\* The goroutines serving requests.
Procs == {1, 2}
\* r.RemoteAddr of the clients: two connections (ports) of one host.
RemoteAddrs == {"10.0.0.1:40001", "10.0.0.1:40002"}
\* The client that runs a loop of back-to-back calls.
LoopAddr == "10.0.0.1:40001"
\* How far one advance of the clock can go, in seconds.
TickSteps == {Window - 1, Window}
\* Lengths of the loop of back-to-back calls.
BurstSizes == {Limit - 2, Limit - 1, Limit}
\* The bytes one Read of a body delivers.
ChunkSizes == {1, BufferLen}
\* The time one Read of a body takes, in nanoseconds.
ReadTimes == {0, 600000}

VARIABLES
    clock,      \* time.Now(), in seconds since the start of the process
    requests,   \* rl.requests: map from identity to its timestamps
    mu,         \* rl.mu: the goroutine that holds the lock, or NoProc
    pc,         \* where each goroutine stands in withRateLimit / isAllowed
    req,        \* the request each goroutine serves (NoReq before the first)
    ret,        \* the value isAllowed returned to each goroutine
    status,     \* the HTTP status written for the request (0: none yet)
    served,     \* the requests handed to the wrapped handler, per goroutine
    calls,      \* requests served step by step so far
    looped,     \* the loop of back-to-back calls has run
    \* History of the run, read by the properties only:
    log,        \* per identity, every recorded call in order: [ts, ok]
    cleanedAt,  \* per goroutine, the clock at its call's prune step
    seen,       \* per goroutine, Len(log[ip]) at its call's prune step
    slot,       \* per goroutine, the place of its call's record in log[ip]
    left,       \* per goroutine, len(rl.requests[ip]) as its call decided
    solo,       \* per identity, the map of a limiter that serves it alone
    alone,      \* per goroutine, what that limiter answered its call
    \* The registered routes, one request at a time (main):
    httpReq,    \* r: the request the server is serving (NoReq before the first)
    httpResp,   \* w: the status code and the headers written for it
    chain,      \* the function of the route's chain that runs next
    trail,      \* the functions entered for the request, in order
    \* One call of downloadHandler or uploadHandler (main.go):
    handler,    \* the handler called ("" before the call)
    hpc,        \* where the call stands
    hReq,       \* r: the method, the declared length and the body's reads
    hResp,      \* w: what the handler wrote
    bytesWritten,   \* downloadHandler: the running byte count
    bytesUploaded,  \* uploadHandler: what io.Copy has counted so far
    pos,        \* uploadHandler: the reads of the body done so far
    err,        \* the error the call ran into ("nil": none)
    nanotime,   \* time.Now() of the call, in nanoseconds
    startTime,  \* uploadHandler: startTime
    \* The SpeedTest component of the frontend (SpeedTest.tsx):
    testState,  \* isRunning, currentTest, progress, error, isConnected
    results,    \* null (<< >>) or the three measurements
    fpc,        \* the await runSpeedTest stands at ("idle": no run)
    response,   \* measureDownload: the chunks its reader has yet to deliver
    totalBytes, \* measureDownload: totalBytes
    replies     \* the status codes of the responses the run has received

\* The variables of the routes.
routes == <<httpReq, httpResp, chain, trail>>

\* The variables of a handler call.
handlers == <<handler, hpc, hReq, hResp, bytesWritten, bytesUploaded, pos, err,
              nanotime, startTime>>

\* The variables of the frontend.
frontend == <<testState, results, fpc, response, totalBytes, replies>>

\* The variables outside the limiter and the goroutines that call it.
outside == <<routes, handlers, frontend>>

vars == <<clock, requests, mu, pc, req, ret, status, served, calls, looped,
          log, cleanedAt, seen, slot, left, solo, alone, outside>>

\* The counters that bound the run, and the history kept beside the
\* program's state.
env == <<calls, looped>>
hist == <<log, cleanedAt, seen, slot, left, solo, alone>>

NoProc == 0
NoReq == [RemoteAddr |-> "", Method |-> "", Path |-> ""]
Methods == {"GET"}
Paths == {"/ping"}
Requests == [RemoteAddr : RemoteAddrs, Method : Methods, Path : Paths]

\* ------------------------------------------------------------ the limiter
\* t.After(u)
After(t, u) == t > u

\* rl.requests[ip] of a Go map: the nil slice when the key is absent.
Lookup(m, ip) == IF ip \in DOMAIN m THEN m[ip] ELSE << >>

\* The loop of clean on the array behind `times`: `valid := times[:0]`
\* shares it, so the r-th element read is written to place w + 1 of the
\* same array when it is kept.  The result is valid, the first w places.
RECURSIVE FilterInPlace(_, _, _, _)
FilterInPlace(times, r, w, window) ==
    IF r > Len(times)
    THEN SubSeq(times, 1, w)
    ELSE IF After(times[r], window)
    THEN FilterInPlace([times EXCEPT ![w + 1] = times[r]], r + 1, w + 1, window)
    ELSE FilterInPlace(times, r + 1, w, window)

\* clean without its `delete`: a key left without timestamps stays in
\* the map with an empty list.
CleanMapKeepsKey(m, ip, now) ==
    LET window == now - Window IN
    IF ip \in DOMAIN m
    THEN [m EXCEPT ![ip] = SelectSeq(m[ip], LAMBDA t : After(t, window))]
    ELSE m

\* clean as a sweep of the whole map: the stale timestamps of every
\* identity are removed, whoever is calling.
CleanMapSweep(m, ip, now) ==
    LET window == now - Window
        valid(k) == SelectSeq(m[k], LAMBDA t : After(t, window))
    IN [k \in {x \in DOMAIN m : Len(valid(x)) > 0} |-> valid(k)]

\* clean with the filtered slice never stored back: nothing is pruned.
CleanMapKeepAll(m, ip, now) == m

\* clean with `window := now`, the minute not subtracted.
CleanMapNoWindow(m, ip, now) ==
    IF ip \in DOMAIN m
    THEN LET valid == SelectSeq(m[ip], LAMBDA t : After(t, now)) IN
         IF Len(valid) = 0
         THEN [k \in DOMAIN m \ {ip} |-> m[k]]
         ELSE [m EXCEPT ![ip] = valid]
    ELSE m

\* clean with `!t.Before(window)`: a timestamp exactly one minute old is
\* kept.
CleanMapInclusive(m, ip, now) ==
    LET window == now - Window IN
    IF ip \in DOMAIN m
    THEN LET valid == SelectSeq(m[ip], LAMBDA t : ~(t < window)) IN
         IF Len(valid) = 0
         THEN [k \in DOMAIN m \ {ip} |-> m[k]]
         ELSE [m EXCEPT ![ip] = valid]
    ELSE m

\* The body of clean on the map m at time now: the timestamps after
\* now - 1 minute are kept, in order (the loop filters the slice in place,
\* writing behind its read position), and a key left without timestamps
\* is deleted.
CleanMap(m, ip, now) ==
    LET window == now - Window IN
    IF ip \in DOMAIN m
    THEN LET valid == SelectSeq(m[ip], LAMBDA t : After(t, window)) IN
         IF Len(valid) = 0
         THEN [k \in DOMAIN m \ {ip} |-> m[k]]
         ELSE [m EXCEPT ![ip] = valid]
    ELSE m

\* The record step of a limiter that does not record a request it is
\* about to reject.
RecordMapUnlessFull(m, ip, now) ==
    IF Len(Lookup(m, ip)) >= Limit
    THEN m
    ELSE [k \in DOMAIN m \cup {ip} |->
            IF k = ip THEN Append(Lookup(m, ip), now) ELSE m[k]]

\* The record step with the new timestamp put in front of the list.
RecordMapInFront(m, ip, now) ==
    [k \in DOMAIN m \cup {ip} |->
        IF k = ip THEN <<now>> \o Lookup(m, ip) ELSE m[k]]

\* rl.requests[ip] = append(rl.requests[ip], now)
RecordMap(m, ip, now) ==
    [k \in DOMAIN m \cup {ip} |->
        IF k = ip THEN Append(Lookup(m, ip), now) ELSE m[k]]

\* The decision with the cap itself refused.
DecideStrict(m, ip) == Len(Lookup(m, ip)) < Limit

\* The decision with one request too many let through.
DecideLoose(m, ip) == Len(Lookup(m, ip)) <= Limit + 1

\* The decision of a limiter that counts the requests of all identities
\* against one cap.
RECURSIVE TotalLen(_, _)
TotalLen(m, keys) ==
    IF keys = {}
    THEN 0
    ELSE LET k == CHOOSE x \in keys : TRUE IN Len(m[k]) + TotalLen(m, keys \ {k})

DecideGlobal(m, ip) == TotalLen(m, DOMAIN m) <= Limit

\* return len(rl.requests[ip]) <= 60
Decide(m, ip) == Len(Lookup(m, ip)) <= Limit

\* One whole isAllowed call run with no other goroutine in between and no
\* measurable advance of the clock: the new map and the value returned.
IsAllowedSeq(m, ip, now) ==
    LET m2 == RecordMap(CleanMap(m, ip, now), ip, now) IN
    [map |-> m2, ok |-> Decide(m2, ip)]

\* Calls of isAllowed(ip) in a row by one goroutine, until the identity's
\* history holds `last` calls: the map and the history after them.
RECURSIVE LoopCalls(_, _, _, _, _)
LoopCalls(m, lg, ip, now, last) ==
    IF Len(lg) >= last
    THEN [map |-> m, log |-> lg]
    ELSE LET r == IsAllowedSeq(m, ip, now) IN
         LoopCalls(r.map, Append(lg, [ts |-> now, ok |-> r.ok]), ip, now, last)

\* ------------------------------------------------------- the HTTP surface
HttpMethods == {"GET", "POST", "OPTIONS"}
\* The patterns main registers on the mux.
Endpoints == {"/ping", "/download", "/upload", "/status"}
\* The routes main registers with withRateLimit in their chain.
Limited == {"/ping", "/download", "/upload"}
\* The paths requested: the registered ones and one that no pattern matches.
HttpPaths == Endpoints \cup {"/"}
\* The requests sent to the routes, all by one client.
HttpRequests == [RemoteAddr : {LoopAddr}, Method : HttpMethods, Path : HttpPaths]

\* The handler at the end of each route's chain.
EndpointHandler(path) ==
    CASE path = "/ping" -> "pingHandler"
      [] path = "/download" -> "downloadHandler"
      [] path = "/upload" -> "uploadHandler"
      [] path = "/status" -> "statusHandler"

EndpointHandlers == {EndpointHandler(path) : path \in Endpoints}

\* What logRequest wraps in the route of path: withRateLimit around the
\* handler, or the handler itself.
Wrapped(path) ==
    IF path \in Limited THEN "withRateLimit" ELSE EndpointHandler(path)

\* The headers enableCORS sets, and a response with nothing written yet.
CorsHeaders ==
    [h \in {"Access-Control-Allow-Origin", "Access-Control-Allow-Methods",
            "Access-Control-Allow-Headers", "Cache-Control", "Connection"} |->
        CASE h = "Access-Control-Allow-Origin" -> "http://localhost:5173"
          [] h = "Access-Control-Allow-Methods" -> "GET, POST, OPTIONS"
          [] h = "Access-Control-Allow-Headers" -> "Content-Type"
          [] h = "Cache-Control" -> "no-cache"
          [] h = "Connection" -> "keep-alive"]

NoHeaders == [h \in DOMAIN CorsHeaders |-> ""]
NoResp == [Code |-> 0, Header |-> NoHeaders]

\* The status codes the handler of a route can answer r with: the ping and
\* status handlers always succeed, the measurement handlers check the
\* method first and can fail afterwards.
HandlerCodes(r) ==
    CASE r.Path = "/ping" -> {200}
      [] r.Path = "/status" -> {200}
      [] r.Path = "/download" -> IF r.Method # "GET" THEN {405} ELSE {200, 500}
      [] r.Path = "/upload" -> IF r.Method # "POST" THEN {405} ELSE {200, 400, 500}

\* ----------------------------------------------- the measurement handlers
\* The digits of a natural number.
Digit(d) ==
    CASE d = 0 -> "0" [] d = 1 -> "1" [] d = 2 -> "2" [] d = 3 -> "3"
      [] d = 4 -> "4" [] d = 5 -> "5" [] d = 6 -> "6" [] d = 7 -> "7"
      [] d = 8 -> "8" [] d = 9 -> "9"

\* fmt.Sprintf("%d", n) for n >= 0: the decimal digits, as a sequence of
\* one-character strings.
RECURSIVE FormatInt(_)
FormatInt(n) ==
    IF n < 10 THEN <<Digit(n)>> ELSE Append(FormatInt(n \div 10), Digit(n % 10))

\* min(a, b) of main.go.
Min(a, b) == IF a < b THEN a ELSE b

\* Duration.Milliseconds() of a duration in nanoseconds: an integer
\* division.
Milliseconds(d) == d \div 1000000

\* One Read of a request body: the bytes it delivered and its error.  A
\* body is the sequence of its reads; Read on a body that was read to its
\* end returns (0, io.EOF).
Chunks == {[n |-> c, err |-> "nil"] : c \in ChunkSizes}
Finals == {[n |-> 1, err |-> "EOF"], [n |-> 0, err |-> "ErrUnexpectedEOF"]}
Bodies ==
    UNION {[1 .. k -> Chunks] : k \in 0 .. MaxReads}
    \cup {Append(b, f) :
            b \in UNION {[1 .. k -> Chunks] : k \in 0 .. (MaxReads - 1)},
            f \in Finals}

\* The bytes of a body.
RECURSIVE Total(_)
Total(body) ==
    IF Len(body) = 0 THEN 0 ELSE body[1].n + Total(Tail(body))

\* The requests given to downloadHandler (no body) and to uploadHandler
\* (r.ContentLength is the body's length, 0, or -1 for a length not known).
DownloadRequests ==
    [Method : HttpMethods, ContentLength : {0}, Body : {<< >>}]
UploadRequests ==
    {[Method |-> m, ContentLength |-> c, Body |-> b] :
        m \in HttpMethods, b \in Bodies, c \in {-1, 0}} \cup
    {[Method |-> m, ContentLength |-> Total(b), Body |-> b] :
        m \in HttpMethods, b \in Bodies}
NoBody == [Method |-> "", ContentLength |-> 0, Body |-> << >>]

\* An http.ResponseWriter nothing was written to: no status code, no
\* Content-Length header, no payload byte, no error text, no JSON value.
NoWrite ==
    [Code |-> 0, ContentLength |-> << >>, Payload |-> 0, Text |-> "", Json |-> << >>]

\* The status code after a Write: 200 unless a code was written before.
Written(code) == IF code = 0 THEN 200 ELSE code

\* http.Error(w, text, code): the code, unless one was written before, and
\* the text.
HttpError(resp, text, code) ==
    [resp EXCEPT !.Code = IF @ = 0 THEN code ELSE @, !.Text = text]

\* rand.Read(buffer): the whole buffer filled, or an error.
RandReads == {[n |-> BufferLen, err |-> "nil"], [n |-> 0, err |-> "error"]}

\* downloadHandler's loop condition with the bound included.
LoopingInclusive(written) == written <= downloadSize

\* for bytesWritten < downloadSize
Looping(written) == written < downloadSize

\* ------------------------------------------------------------------- Init
\* newRateLimiter: an empty map and a free lock; no request in flight.
Init ==
    /\ clock = 0
    /\ requests = << >>
    /\ mu = NoProc
    /\ pc = [p \in Procs |-> "idle"]
    /\ req = [p \in Procs |-> NoReq]
    /\ ret = [p \in Procs |-> FALSE]
    /\ status = [p \in Procs |-> 0]
    /\ served = [p \in Procs |-> << >>]
    /\ calls = 0
    /\ looped = FALSE
    /\ log = [a \in RemoteAddrs |-> << >>]
    /\ cleanedAt = [p \in Procs |-> 0]
    /\ seen = [p \in Procs |-> 0]
    /\ slot = [p \in Procs |-> 0]
    /\ left = [p \in Procs |-> 0]
    /\ solo = [a \in RemoteAddrs |-> << >>]
    /\ alone = [p \in Procs |-> FALSE]
    /\ httpReq = NoReq
    /\ httpResp = NoResp
    /\ chain = "idle"
    /\ trail = << >>
    /\ handler = ""
    /\ hpc = "idle"
    /\ hReq = NoBody
    /\ hResp = NoWrite
    /\ bytesWritten = 0
    /\ bytesUploaded = 0
    /\ pos = 0
    /\ err = "nil"
    /\ nanotime = 0
    /\ startTime = 0
    /\ testState = [isRunning |-> FALSE, currentTest |-> "null", progress |-> 0,
                    error |-> "null", isConnected |-> FALSE]
    /\ results = << >>
    /\ fpc = "idle"
    /\ response = << >>
    /\ totalBytes = 0
    /\ replies = << >>

\* ---------------------------------------------------------------- actions
\* A request arrives and is served by the first free goroutine:
\* withRateLimit reads r.RemoteAddr and calls limiter.isAllowed(ip), which
\* calls rl.clean(ip).
Arrive(p, r) ==
    /\ pc[p] = "idle"
    /\ \A q \in Procs : q < p => pc[q] # "idle"
    /\ calls < MaxCalls
    /\ calls' = calls + 1
    /\ req' = [req EXCEPT ![p] = r]
    /\ status' = [status EXCEPT ![p] = 0]
    /\ served' = [served EXCEPT ![p] = << >>]
    /\ ret' = [ret EXCEPT ![p] = FALSE]
    /\ alone' = [alone EXCEPT ![p] = FALSE]
    /\ pc' = [pc EXCEPT ![p] = "clean_lock"]
    /\ UNCHANGED <<clock, requests, mu, looped, log, cleanedAt, seen,
                   slot, left, solo>>
    /\ UNCHANGED outside

\* clean with a lock that does not wait for its holder.
CleanLockNoWait(p) ==
    /\ pc[p] = "clean_lock"
    /\ mu' = p
    /\ pc' = [pc EXCEPT ![p] = "clean"]
    /\ UNCHANGED <<clock, requests, req, ret, status, served>>
    /\ UNCHANGED <<env, hist>>
    /\ UNCHANGED outside

\* clean: rl.mu.Lock()
CleanLock(p) ==
    /\ pc[p] = "clean_lock"
    /\ mu = NoProc
    /\ mu' = p
    /\ pc' = [pc EXCEPT ![p] = "clean"]
    /\ UNCHANGED <<clock, requests, req, ret, status, served>>
    /\ UNCHANGED <<env, hist>>
    /\ UNCHANGED outside

\* clean without its `defer rl.mu.Unlock()`: the lock stays held.
CleanBodyKeepsLock(p) ==
    LET ip == req[p].RemoteAddr IN
    /\ pc[p] = "clean"
    /\ mu = p
    /\ requests' = CleanMap(requests, ip, clock)
    /\ pc' = [pc EXCEPT ![p] = "record_lock"]
    /\ cleanedAt' = [cleanedAt EXCEPT ![p] = clock]
    /\ seen' = [seen EXCEPT ![p] = Len(log[ip])]
    /\ solo' = [solo EXCEPT ![ip] = CleanMap(@, ip, clock)]
    /\ UNCHANGED <<clock, mu, req, ret, status, served, log, slot, left, alone>>
    /\ UNCHANGED env
    /\ UNCHANGED outside

\* clean: the body under the lock, then the deferred rl.mu.Unlock().
CleanBody(p) ==
    LET ip == req[p].RemoteAddr IN
    /\ pc[p] = "clean"
    /\ mu = p
    /\ requests' = CleanMap(requests, ip, clock)
    /\ mu' = NoProc
    /\ pc' = [pc EXCEPT ![p] = "record_lock"]
    /\ cleanedAt' = [cleanedAt EXCEPT ![p] = clock]
    /\ seen' = [seen EXCEPT ![p] = Len(log[ip])]
    /\ solo' = [solo EXCEPT ![ip] = CleanMap(@, ip, clock)]
    /\ UNCHANGED <<clock, req, ret, status, served, log, slot, left, alone>>
    /\ UNCHANGED env
    /\ UNCHANGED outside

\* isAllowed: rl.mu.Lock()
RecordLock(p) ==
    /\ pc[p] = "record_lock"
    /\ mu = NoProc
    /\ mu' = p
    /\ pc' = [pc EXCEPT ![p] = "record"]
    /\ UNCHANGED <<clock, requests, req, ret, status, served>>
    /\ UNCHANGED <<env, hist>>
    /\ UNCHANGED outside

\* isAllowed deciding on the list as it was before the append.
RecordBodyDecidesFirst(p) ==
    LET ip == req[p].RemoteAddr
        m2 == RecordMap(requests, ip, clock)
        s2 == RecordMap(solo[ip], ip, clock)
    IN
    /\ pc[p] = "record"
    /\ mu = p
    /\ requests' = m2
    /\ ret' = [ret EXCEPT ![p] = Decide(requests, ip)]
    /\ mu' = NoProc
    /\ pc' = [pc EXCEPT ![p] = "gate"]
    /\ log' = [log EXCEPT ![ip] = Append(@, [ts |-> clock, ok |-> Decide(requests, ip)])]
    /\ slot' = [slot EXCEPT ![p] = Len(log[ip]) + 1]
    /\ left' = [left EXCEPT ![p] = Len(m2[ip])]
    /\ solo' = [solo EXCEPT ![ip] = s2]
    /\ alone' = [alone EXCEPT ![p] = Decide(solo[ip], ip)]
    /\ UNCHANGED <<clock, req, status, served, cleanedAt, seen>>
    /\ UNCHANGED env
    /\ UNCHANGED outside

\* isAllowed: append, decide, then the deferred rl.mu.Unlock().
RecordBody(p) ==
    LET ip == req[p].RemoteAddr
        m2 == RecordMap(requests, ip, clock)
        s2 == RecordMap(solo[ip], ip, clock)
    IN
    /\ pc[p] = "record"
    /\ mu = p
    /\ requests' = m2
    /\ ret' = [ret EXCEPT ![p] = Decide(m2, ip)]
    /\ mu' = NoProc
    /\ pc' = [pc EXCEPT ![p] = "gate"]
    /\ log' = [log EXCEPT ![ip] = Append(@, [ts |-> clock, ok |-> Decide(m2, ip)])]
    /\ slot' = [slot EXCEPT ![p] = Len(log[ip]) + 1]
    /\ left' = [left EXCEPT ![p] = Len(m2[ip])]
    /\ solo' = [solo EXCEPT ![ip] = s2]
    /\ alone' = [alone EXCEPT ![p] = Decide(s2, ip)]
    /\ UNCHANGED <<clock, req, status, served, cleanedAt, seen>>
    /\ UNCHANGED env
    /\ UNCHANGED outside

\* withRateLimit with the `return` after http.Error missing: the handler
\* runs for a refused request too.
GateNoReturn(p) ==
    /\ pc[p] = "gate"
    /\ status' = [status EXCEPT ![p] = IF ret[p] THEN 200 ELSE 429]
    /\ served' = [served EXCEPT ![p] = Append(@, req[p])]
    /\ pc' = [pc EXCEPT ![p] = "idle"]
    /\ cleanedAt' = [cleanedAt EXCEPT ![p] = 0]
    /\ seen' = [seen EXCEPT ![p] = 0]
    /\ slot' = [slot EXCEPT ![p] = 0]
    /\ left' = [left EXCEPT ![p] = 0]
    /\ UNCHANGED <<clock, requests, mu, req, ret, log, solo, alone>>
    /\ UNCHANGED env
    /\ UNCHANGED outside

\* withRateLimit after isAllowed returned: 429 and return, or the wrapped
\* handler (which answers 200).  The locals of the call are dead from
\* here on.
Gate(p) ==
    /\ pc[p] = "gate"
    /\ IF ~ret[p]
       THEN /\ status' = [status EXCEPT ![p] = 429]
            /\ UNCHANGED served
       ELSE /\ status' = [status EXCEPT ![p] = 200]
            /\ served' = [served EXCEPT ![p] = Append(@, req[p])]
    /\ pc' = [pc EXCEPT ![p] = "idle"]
    /\ cleanedAt' = [cleanedAt EXCEPT ![p] = 0]
    /\ seen' = [seen EXCEPT ![p] = 0]
    /\ slot' = [slot EXCEPT ![p] = 0]
    /\ left' = [left EXCEPT ![p] = 0]
    /\ UNCHANGED <<clock, requests, mu, req, ret, log, solo, alone>>
    /\ UNCHANGED env
    /\ UNCHANGED outside

\* One goroutine calls isAllowed(ip) n times in a row while no other
\* request is in flight.
Burst(ip, n) ==
    /\ ~looped
    /\ \A p \in Procs : pc[p] = "idle"
    /\ mu = NoProc
    /\ LET r == LoopCalls(requests, log[ip], ip, clock, Len(log[ip]) + n)
           s == LoopCalls(solo[ip], log[ip], ip, clock, Len(log[ip]) + n)
       IN /\ requests' = r.map
          /\ log' = [log EXCEPT ![ip] = r.log]
          /\ solo' = [solo EXCEPT ![ip] = s.map]
    /\ looped' = TRUE
    /\ UNCHANGED <<clock, mu, pc, req, ret, status, served, calls,
                   cleanedAt, seen, slot, left, alone>>
    /\ UNCHANGED outside

\* The clock advances.
Tick(d) ==
    /\ clock + d <= MaxClock
    /\ clock' = clock + d
    /\ UNCHANGED <<requests, mu, pc, req, ret, status, served, calls, looped>>
    /\ UNCHANGED hist
    /\ UNCHANGED outside

\* The steps of goroutine p once it has a request: isAllowed inside
\* withRateLimit.
Serve(p) ==
    \/ CleanLock(p)
    \/ CleanBody(p)
    \/ RecordLock(p)
    \/ RecordBody(p)
    \/ Gate(p)

Step(p) ==
    \/ \E r \in Requests : Arrive(p, r)
    \/ Serve(p)

Next ==
    \/ \E p \in Procs : Step(p)
    \/ \E n \in BurstSizes : Burst(LoopAddr, n)
    \/ \E d \in TickSteps : Tick(d)

Spec == Init /\ [][Next]_vars

\* The scheduler runs every goroutine that can run, and sync.Mutex hands
\* the lock to a goroutine that keeps waiting for it (starvation mode).
Fairness == \A p \in Procs : SF_vars(Serve(p))

FairSpec == Spec /\ Fairness

\* ------------------------------------------------------------ the routes
\* The limiter's goroutines, which the routes below do not use: they serve
\* one request at a time, each isAllowed call running alone.
goroutines == <<mu, pc, req, ret, status, served, cleanedAt, seen, slot,
                left, solo, alone>>

\* mux.ServeHTTP: the request goes to the chain registered for its path,
\* or to the mux's NotFound handler.
ServeMux(r) ==
    /\ chain = "idle"
    /\ calls < MaxCalls
    /\ calls' = calls + 1
    /\ httpReq' = r
    /\ IF r.Path \in Endpoints
       THEN /\ httpResp' = NoResp
            /\ chain' = "enableCORS"
            /\ trail' = <<"enableCORS">>
       ELSE /\ httpResp' = [NoResp EXCEPT !.Code = 404]
            /\ chain' = "idle"
            /\ trail' = <<"NotFound">>
    /\ UNCHANGED <<clock, requests, looped, log, goroutines>>
    /\ UNCHANGED <<handlers, frontend>>

\* enableCORS without the `return` of its preflight branch.
EnableCORSNoReturn ==
    /\ chain = "enableCORS"
    /\ httpResp' = [Code |-> IF httpReq.Method = "OPTIONS" THEN 200 ELSE httpResp.Code,
                    Header |-> CorsHeaders]
    /\ chain' = "logRequest"
    /\ trail' = Append(trail, "logRequest")
    /\ UNCHANGED <<clock, requests, calls, looped, log, goroutines, httpReq>>
    /\ UNCHANGED <<handlers, frontend>>

\* enableCORS: the headers, then 200 for a preflight request or the next
\* handler (logRequest, in every registered chain) for any other.
EnableCORS ==
    /\ chain = "enableCORS"
    /\ IF httpReq.Method = "OPTIONS"
       THEN /\ httpResp' = [Code |-> 200, Header |-> CorsHeaders]
            /\ chain' = "idle"
            /\ UNCHANGED trail
       ELSE /\ httpResp' = [httpResp EXCEPT !.Header = CorsHeaders]
            /\ chain' = "logRequest"
            /\ trail' = Append(trail, "logRequest")
    /\ UNCHANGED <<clock, requests, calls, looped, log, goroutines, httpReq>>
    /\ UNCHANGED <<handlers, frontend>>

\* logRequest: the wrapped handler (the log line it prints after the
\* handler returned changes nothing here).
LogRequest ==
    /\ chain = "logRequest"
    /\ chain' = Wrapped(httpReq.Path)
    /\ trail' = Append(trail, Wrapped(httpReq.Path))
    /\ UNCHANGED <<clock, requests, calls, looped, log, goroutines,
                   httpReq, httpResp>>
    /\ UNCHANGED <<handlers, frontend>>

\* withRateLimit: isAllowed(r.RemoteAddr), then 429 and return, or the
\* handler.
WithRateLimit ==
    LET ip == httpReq.RemoteAddr
        a == IsAllowedSeq(requests, ip, clock)
    IN
    /\ chain = "withRateLimit"
    /\ requests' = a.map
    /\ log' = [log EXCEPT ![ip] = Append(@, [ts |-> clock, ok |-> a.ok])]
    /\ IF ~a.ok
       THEN /\ httpResp' = [httpResp EXCEPT !.Code = 429]
            /\ chain' = "idle"
            /\ UNCHANGED trail
       ELSE /\ chain' = EndpointHandler(httpReq.Path)
            /\ trail' = Append(trail, EndpointHandler(httpReq.Path))
            /\ UNCHANGED httpResp
    /\ UNCHANGED <<clock, calls, looped, goroutines, httpReq>>
    /\ UNCHANGED <<handlers, frontend>>

\* The handler of the route answers the request.
Endpoint ==
    /\ chain \in EndpointHandlers
    /\ \E c \in HandlerCodes(httpReq) : httpResp' = [httpResp EXCEPT !.Code = c]
    /\ chain' = "idle"
    /\ UNCHANGED <<clock, requests, calls, looped, log, goroutines,
                   httpReq, trail>>
    /\ UNCHANGED <<handlers, frontend>>

\* Between two requests, a client sends a run of back-to-back requests
\* that reach the limiter.
Flood ==
    /\ chain = "idle"
    /\ \E n \in BurstSizes : Burst(LoopAddr, n)

ServerNext ==
    \/ \E r \in HttpRequests : ServeMux(r)
    \/ EnableCORS
    \/ LogRequest
    \/ WithRateLimit
    \/ Endpoint
    \/ Flood
    \/ \E d \in TickSteps : Tick(d)

ServerSpec == Init /\ [][ServerNext]_vars

\* ----------------------------------------------- the measurement handlers
\* The limiter and everything that calls it, which a handler never touches.
limiter == <<clock, requests, calls, looped, log, goroutines>>

\* The handler h is called with the request r and a fresh ResponseWriter.
Call(h, r) ==
    /\ hpc = "idle"
    /\ handler' = h
    /\ hReq' = r
    /\ hResp' = NoWrite
    /\ hpc' = "start"
    /\ UNCHANGED <<bytesWritten, bytesUploaded, pos, err, nanotime, startTime>>
    /\ UNCHANGED <<limiter, routes, frontend>>

\* downloadHandler up to its loop: the method check, the headers, the
\* buffer and the byte count.
DownloadStart ==
    /\ handler = "downloadHandler"
    /\ hpc = "start"
    /\ IF hReq.Method # "GET"
       THEN /\ hResp' = HttpError(hResp, "Method not allowed", 405)
            /\ hpc' = "done"
       ELSE /\ hResp' = [hResp EXCEPT !.ContentLength = FormatInt(downloadSize)]
            /\ hpc' = "loop"
    /\ bytesWritten' = 0
    /\ UNCHANGED <<handler, hReq, bytesUploaded, pos, err, nanotime, startTime>>
    /\ UNCHANGED <<limiter, routes, frontend>>

\* One round of downloadHandler's loop: rand.Read, then w.Write of
\* min(n, downloadSize - bytesWritten) bytes, then the count.
DownloadChunk ==
    /\ handler = "downloadHandler"
    /\ hpc = "loop"
    /\ Looping(bytesWritten)
    /\ \E rd \in RandReads : \E wr \in {"nil", "error"} :
          LET writeLen == Min(rd.n, downloadSize - bytesWritten) IN
          IF rd.err # "nil"
          THEN /\ hResp' = HttpError(hResp, "Internal Server Error", 500)
               /\ err' = rd.err
               /\ hpc' = "done"
               /\ UNCHANGED bytesWritten
          ELSE IF wr # "nil"
          THEN /\ err' = wr
               /\ hpc' = "done"
               /\ UNCHANGED <<hResp, bytesWritten>>
          ELSE /\ hResp' = [hResp EXCEPT !.Code = Written(@),
                                         !.Payload = @ + writeLen]
               /\ bytesWritten' = bytesWritten + writeLen
               /\ UNCHANGED <<err, hpc>>
    /\ UNCHANGED <<handler, hReq, bytesUploaded, pos, nanotime, startTime>>
    /\ UNCHANGED <<limiter, routes, frontend>>

\* downloadHandler returns when its loop condition fails; the server sends
\* 200 if no code was written.
DownloadReturn ==
    /\ handler = "downloadHandler"
    /\ hpc = "loop"
    /\ ~Looping(bytesWritten)
    /\ hResp' = [hResp EXCEPT !.Code = Written(@)]
    /\ hpc' = "done"
    /\ UNCHANGED <<handler, hReq, bytesWritten, bytesUploaded, pos, err,
                   nanotime, startTime>>
    /\ UNCHANGED <<limiter, routes, frontend>>

\* uploadHandler with the length check moved in front of the method check.
UploadStartLengthFirst ==
    /\ handler = "uploadHandler"
    /\ hpc = "start"
    /\ IF hReq.ContentLength = 0
       THEN /\ hResp' = HttpError(hResp, "Request body is empty", 400)
            /\ hpc' = "done"
            /\ UNCHANGED startTime
       ELSE IF hReq.Method # "POST"
       THEN /\ hResp' = HttpError(hResp, "Method not allowed", 405)
            /\ hpc' = "done"
            /\ UNCHANGED startTime
       ELSE /\ startTime' = nanotime
            /\ hpc' = "copy"
            /\ UNCHANGED hResp
    /\ bytesUploaded' = 0
    /\ pos' = 0
    /\ UNCHANGED <<handler, hReq, bytesWritten, err, nanotime>>
    /\ UNCHANGED <<limiter, routes, frontend>>

\* uploadHandler without its check of r.ContentLength.
UploadStartNoLengthCheck ==
    /\ handler = "uploadHandler"
    /\ hpc = "start"
    /\ IF hReq.Method # "POST"
       THEN /\ hResp' = HttpError(hResp, "Method not allowed", 405)
            /\ hpc' = "done"
            /\ UNCHANGED startTime
       ELSE /\ startTime' = nanotime
            /\ hpc' = "copy"
            /\ UNCHANGED hResp
    /\ bytesUploaded' = 0
    /\ pos' = 0
    /\ UNCHANGED <<handler, hReq, bytesWritten, err, nanotime>>
    /\ UNCHANGED <<limiter, routes, frontend>>

\* uploadHandler up to io.Copy: the method check, the check of
\* r.ContentLength, startTime.
UploadStart ==
    /\ handler = "uploadHandler"
    /\ hpc = "start"
    /\ IF hReq.Method # "POST"
       THEN /\ hResp' = HttpError(hResp, "Method not allowed", 405)
            /\ hpc' = "done"
            /\ UNCHANGED startTime
       ELSE IF hReq.ContentLength = 0
       THEN /\ hResp' = HttpError(hResp, "Request body is empty", 400)
            /\ hpc' = "done"
            /\ UNCHANGED startTime
       ELSE /\ startTime' = nanotime
            /\ hpc' = "copy"
            /\ UNCHANGED hResp
    /\ bytesUploaded' = 0
    /\ pos' = 0
    /\ UNCHANGED <<handler, hReq, bytesWritten, err, nanotime>>
    /\ UNCHANGED <<limiter, routes, frontend>>

\* io.Copy with the count set, not added to, by each Read.
UploadReadLastOnly ==
    LET rd == IF pos < Len(hReq.Body)
              THEN hReq.Body[pos + 1]
              ELSE [n |-> 0, err |-> "EOF"]
    IN
    /\ handler = "uploadHandler"
    /\ hpc = "copy"
    /\ \E d \in ReadTimes : nanotime' = nanotime + d
    /\ bytesUploaded' = rd.n
    /\ pos' = Min(pos + 1, Len(hReq.Body))
    /\ IF rd.err = "nil"
       THEN UNCHANGED <<err, hpc>>
       ELSE /\ err' = IF rd.err = "EOF" THEN "nil" ELSE rd.err
            /\ hpc' = "copied"
    /\ UNCHANGED <<handler, hReq, hResp, bytesWritten, startTime>>
    /\ UNCHANGED <<limiter, routes, frontend>>

\* One Read of io.Copy(io.Discard, r.Body): the bytes are counted, and the
\* copy ends at the first error, io.EOF being none to the caller.
UploadRead ==
    LET rd == IF pos < Len(hReq.Body)
              THEN hReq.Body[pos + 1]
              ELSE [n |-> 0, err |-> "EOF"]
    IN
    /\ handler = "uploadHandler"
    /\ hpc = "copy"
    /\ \E d \in ReadTimes : nanotime' = nanotime + d
    /\ bytesUploaded' = bytesUploaded + rd.n
    /\ pos' = Min(pos + 1, Len(hReq.Body))
    /\ IF rd.err = "nil"
       THEN UNCHANGED <<err, hpc>>
       ELSE /\ err' = IF rd.err = "EOF" THEN "nil" ELSE rd.err
            /\ hpc' = "copied"
    /\ UNCHANGED <<handler, hReq, hResp, bytesWritten, startTime>>
    /\ UNCHANGED <<limiter, routes, frontend>>

\* uploadHandler after io.Copy: 500 for an error, or the duration and the
\* JSON response.
UploadFinish ==
    LET duration == Milliseconds(nanotime - startTime) IN
    /\ handler = "uploadHandler"
    /\ hpc = "copied"
    /\ IF err # "nil"
       THEN hResp' = HttpError(hResp, "Internal Server Error", 500)
       ELSE hResp' = [hResp EXCEPT
                        !.Code = Written(@),
                        !.Json = <<[BytesUploaded |-> bytesUploaded,
                                    Duration |-> duration]>>]
    /\ hpc' = "done"
    /\ UNCHANGED <<handler, hReq, bytesWritten, bytesUploaded, pos, err,
                   nanotime, startTime>>
    /\ UNCHANGED <<limiter, routes, frontend>>

\* The steps of the handler once it is called.
Run ==
    \/ DownloadStart
    \/ DownloadChunk
    \/ DownloadReturn
    \/ UploadStart
    \/ UploadRead
    \/ UploadFinish

HandlerNext ==
    \/ \E r \in DownloadRequests : Call("downloadHandler", r)
    \/ \E r \in UploadRequests : Call("uploadHandler", r)
    \/ Run

HandlerSpec == Init /\ [][HandlerNext]_vars

\* The goroutine that runs the handler keeps running.  That the random
\* source or the connection fails is up to the environment: no step is
\* bound to fail.
Faultless ==
    \/ DownloadStart
    \/ DownloadChunk /\ err' = "nil"
    \/ DownloadReturn
    \/ UploadStart
    \/ UploadRead
    \/ UploadFinish

FairHandlerSpec == HandlerSpec /\ WF_vars(Faultless)

\* ---------------------------------------------------------- the frontend
\* What a fetch comes to: a rejected promise, or a response with a status.
FetchReplies == {"reject", "200", "429", "500"}
\* response.ok
Ok(reply) == reply = "200"
\* What awaiting response.json() or reader.read() comes to.
Settled == {"resolve", "reject"}
\* The bodies the download reader delivers, chunk by chunk: pieces of the
\* payload, or the text of an error response.
NetChunks == {20, 5 * 1024 * 1024}
FetchBodies == UNION {[1 .. k -> NetChunks] : k \in 0 .. MaxReads}
\* The JSON values the upload endpoint answers with.
UploadReplies ==
    [bytesUploaded : {2 * 1024 * 1024}, duration : {0, 500}]

\* SpeedTest's button and the "Test Again" button, which is rendered with
\* the results: what a click can reach.
Clickable ==
    \/ ~(testState.isRunning \/ ~testState.isConnected)
    \/ results # << >>

\* runSpeedTest's catch block without its finally block.
RejectedNoFinally(msg) ==
    /\ testState' = [testState EXCEPT !.error = msg]
    /\ fpc' = "idle"
    /\ UNCHANGED results

\* runSpeedTest from a throw on: the catch block, then the finally block.
Rejected(msg) ==
    /\ testState' = [testState EXCEPT !.error = msg, !.isRunning = FALSE,
                                      !.currentTest = "null", !.progress = 0]
    /\ fpc' = "idle"
    /\ UNCHANGED results

\* checkConnection, on mount and every 30 seconds: fetch /status.
CheckConnection(reply) ==
    /\ testState' =
          IF reply = "reject"
          THEN [testState EXCEPT !.isConnected = FALSE, !.error = "Connection failed"]
          ELSE IF Ok(reply)
          THEN [testState EXCEPT !.isConnected = TRUE, !.error = "null"]
          ELSE [testState EXCEPT !.isConnected = FALSE,
                                 !.error = "Server not responding"]
    /\ UNCHANGED <<results, fpc, response, totalBytes, replies>>
    /\ UNCHANGED <<limiter, routes, handlers>>

\* A click calls runSpeedTest, which runs up to its first await: the
\* fetch of measurePing.
RunSpeedTest ==
    /\ Clickable
    /\ IF ~testState.isConnected
       THEN /\ testState' = [testState EXCEPT
                               !.error = "Please check your connection to the server"]
            /\ UNCHANGED <<results, fpc, replies>>
       ELSE /\ testState' = [testState EXCEPT !.isRunning = TRUE,
                                              !.currentTest = "ping",
                                              !.progress = 0, !.error = "null"]
            /\ results' = << >>
            /\ fpc' = "ping_fetch"
            /\ replies' = << >>
    /\ UNCHANGED <<response, totalBytes>>
    /\ UNCHANGED <<limiter, routes, handlers>>

\* measurePing: the fetch settles.
PingFetch(reply) ==
    /\ fpc = "ping_fetch"
    /\ IF reply = "reject"
       THEN Rejected("Network error") /\ UNCHANGED replies
       ELSE /\ replies' = Append(replies, reply)
            /\ IF ~Ok(reply)
               THEN Rejected("Ping failed")
               ELSE fpc' = "ping_json" /\ UNCHANGED <<testState, results>>
    /\ UNCHANGED <<response, totalBytes>>
    /\ UNCHANGED <<limiter, routes, handlers>>

\* runSpeedTest without its setTestState before measureDownload.
PingJsonKeepsStage(out) ==
    /\ fpc = "ping_json"
    /\ IF out = "reject"
       THEN Rejected("Network error")
       ELSE /\ fpc' = "download_fetch"
            /\ UNCHANGED <<testState, results>>
    /\ UNCHANGED <<response, totalBytes, replies>>
    /\ UNCHANGED <<limiter, routes, handlers>>

\* measurePing: response.json() settles; then runSpeedTest goes on to the
\* fetch of measureDownload.
PingJson(out) ==
    /\ fpc = "ping_json"
    /\ IF out = "reject"
       THEN Rejected("Network error")
       ELSE /\ testState' = [testState EXCEPT !.currentTest = "download",
                                              !.progress = 0]
            /\ fpc' = "download_fetch"
            /\ UNCHANGED results
    /\ UNCHANGED <<response, totalBytes, replies>>
    /\ UNCHANGED <<limiter, routes, handlers>>

\* measureDownload: the fetch settles; whatever the status, the body's
\* reader is taken, and it is an error only if there is none.
DownloadFetch(reply, reader, body) ==
    /\ fpc = "download_fetch"
    /\ IF reply = "reject"
       THEN Rejected("Network error") /\ UNCHANGED <<replies, response, totalBytes>>
       ELSE /\ replies' = Append(replies, reply)
            /\ IF ~reader
               THEN Rejected("Could not get reader")
                    /\ UNCHANGED <<response, totalBytes>>
               ELSE /\ response' = body
                    /\ totalBytes' = 0
                    /\ fpc' = "download_read"
                    /\ UNCHANGED <<testState, results>>
    /\ UNCHANGED <<limiter, routes, handlers>>

\* measureDownload: reader.read() settles: a chunk is counted and shown as
\* progress (kept here in bytes times 100, that is in units of
\* 1/(10 * 1024 * 1024) percent), or the stream is done and runSpeedTest
\* goes on to the fetch of measureUpload.
DownloadRead(out) ==
    /\ fpc = "download_read"
    /\ IF out = "reject"
       THEN Rejected("Network error") /\ UNCHANGED <<response, totalBytes>>
       ELSE IF Len(response) = 0
       THEN /\ testState' = [testState EXCEPT !.currentTest = "upload",
                                              !.progress = 0]
            /\ fpc' = "upload_fetch"
            /\ UNCHANGED <<results, response, totalBytes>>
       ELSE /\ totalBytes' = totalBytes + Head(response)
            /\ testState' = [testState EXCEPT
                               !.progress = (totalBytes + Head(response)) * 100]
            /\ response' = Tail(response)
            /\ UNCHANGED <<results, fpc>>
    /\ UNCHANGED replies
    /\ UNCHANGED <<limiter, routes, handlers>>

\* measureUpload: the fetch settles.
UploadFetch(reply) ==
    /\ fpc = "upload_fetch"
    /\ IF reply = "reject"
       THEN Rejected("Network error") /\ UNCHANGED replies
       ELSE /\ replies' = Append(replies, reply)
            /\ IF ~Ok(reply)
               THEN Rejected("Upload failed")
               ELSE fpc' = "upload_json" /\ UNCHANGED <<testState, results>>
    /\ UNCHANGED <<response, totalBytes>>
    /\ UNCHANGED <<limiter, routes, handlers>>

\* measureUpload: response.json() settles; then runSpeedTest publishes the
\* results (here the quantities the three figures are computed from) and
\* runs its finally block.
UploadJson(out, result) ==
    /\ fpc = "upload_json"
    /\ IF out = "reject"
       THEN Rejected("Network error")
       ELSE /\ results' = <<[ping |-> replies[1], download |-> totalBytes,
                             upload |-> result]>>
            /\ testState' = [testState EXCEPT !.error = "null",
                                              !.isRunning = FALSE,
                                              !.currentTest = "null",
                                              !.progress = 0]
            /\ fpc' = "idle"
    /\ UNCHANGED <<response, totalBytes, replies>>
    /\ UNCHANGED <<limiter, routes, handlers>>

\* The promises a run awaits settle.
Settle ==
    \/ \E reply \in FetchReplies : PingFetch(reply)
    \/ \E out \in Settled : PingJson(out)
    \/ \E reply \in FetchReplies : \E reader \in BOOLEAN : \E body \in FetchBodies :
          DownloadFetch(reply, reader, body)
    \/ \E out \in Settled : DownloadRead(out)
    \/ \E reply \in FetchReplies : UploadFetch(reply)
    \/ \E out \in Settled : \E result \in UploadReplies : UploadJson(out, result)

FrontNext ==
    \/ \E reply \in FetchReplies : CheckConnection(reply)
    \/ RunSpeedTest
    \/ Settle

FrontSpec == Init /\ [][FrontNext]_vars

\* A pending fetch, body read or JSON parse settles in the end, one way or
\* the other.
FairFrontSpec == FrontSpec /\ WF_vars(Settle)

\* ------------------------------------------------------------- properties
\* The timestamps of every call recorded for ip, in the order of the
\* record steps.
Stamps(ip) == [i \in DOMAIN log[ip] |-> log[ip][i].ts]

\* The timestamps of ip's recorded calls that lie in (t - Window, t] and
\* were answered true.
AdmittedIn(ip, t) ==
    {i \in DOMAIN log[ip] :
        log[ip][i].ok /\ log[ip][i].ts > t - Window /\ log[ip][i].ts <= t}

\* s is the tail of t.
IsSuffix(s, t) ==
    /\ Len(s) <= Len(t)
    /\ \A i \in DOMAIN s : s[i] = t[Len(t) - Len(s) + i]

\* C1: of the calls of an identity with no earlier history, those recorded
\* less than 60 seconds after the first are answered true up to the 60th,
\* and the 61st is answered false.
FirstSixtyAdmitted ==
    \A ip \in RemoteAddrs : \A k \in DOMAIN log[ip] :
        log[ip][k].ts - log[ip][1].ts < Window =>
            /\ k <= Limit => log[ip][k].ok
            /\ k = Limit + 1 => ~log[ip][k].ok

\* C1 witness: 61 calls of one identity within less than 60 seconds, the
\* clock having advanced meanwhile, the last one served step by step.
SixtyFirstRefused ==
    \E p \in Procs :
        /\ pc[p] = "gate"
        /\ slot[p] = Limit + 1
        /\ ~ret[p]
        /\ log[req[p].RemoteAddr][slot[p]].ts - log[req[p].RemoteAddr][1].ts
              \in 1 .. (Window - 1)

\* C2: for every identity and every instant t, at most 60 calls recorded
\* in (t - 60s, t] were answered true (t ranges over the recorded
\* timestamps, where the count of a trailing window is largest).
CapNeverExceeded ==
    \A ip \in RemoteAddrs : \A t \in {log[ip][j].ts : j \in DOMAIN log[ip]} :
        Cardinality(AdmittedIn(ip, t)) <= Limit

\* C2 witness: a call whose prune and record steps are at different clock
\* readings, with other calls recorded in between, is refused while 60
\* admitted calls fill the window.
CapReachedAcrossTick ==
    \E p \in Procs :
        LET ip == req[p].RemoteAddr IN
        /\ pc[p] = "gate"
        /\ ~ret[p]
        /\ slot[p] > seen[p] + 1
        /\ log[ip][slot[p]].ts > cleanedAt[p]
        /\ Cardinality(AdmittedIn(ip, log[ip][slot[p]].ts)) = Limit

\* C3: every recorded timestamp that is not yet stale, of a refused call as
\* of an admitted one, is stored in the identity's list, and each decision
\* counts the whole list.
RecordThenReject ==
    /\ \A ip \in RemoteAddrs :
          IsSuffix(SelectSeq(Stamps(ip), LAMBDA t : t > clock - Window),
                   Lookup(requests, ip))
    /\ \A p \in Procs :
          pc[p] = "gate" => /\ ret[p] = (left[p] <= Limit)
                            /\ left[p] >= 1

\* C3 witness: a call is refused with 62 entries in the list, so an
\* earlier refused call was counted in its decision.
RefusedCallCounted ==
    \E p \in Procs :
        /\ pc[p] = "gate"
        /\ ~ret[p]
        /\ left[p] = Limit + 2
        /\ \E i \in 1 .. (slot[p] - 1) : ~log[req[p].RemoteAddr][i].ok

\* The identity of the call goroutine p serves.
Ip(p) == req[p].RemoteAddr

\* C4 as stated: a call whose prune step runs more than 60 seconds after
\* the identity's earliest recorded call is answered true.
AdmittedAfterEarliest ==
    \A p \in Procs :
        (/\ pc[p] = "gate"
         /\ seen[p] > 0
         /\ cleanedAt[p] - log[Ip(p)][1].ts > Window) => ret[p]

\* C4 amended: a call whose prune step runs more than 60 seconds after the
\* identity's latest recorded call is answered true, provided fewer than
\* 60 other calls of the identity are recorded between its prune step and
\* its record step.
AdmittedAfterLatest ==
    \A p \in Procs :
        (/\ pc[p] = "gate"
         /\ seen[p] > 0
         /\ cleanedAt[p] - log[Ip(p)][seen[p]].ts > Window
         /\ slot[p] - seen[p] <= Limit) => ret[p]

\* C4 witness: an identity that was refused is admitted again more than a
\* minute after its latest recorded call.
AdmittedAfterWaiting ==
    \E p \in Procs :
        /\ pc[p] = "gate"
        /\ seen[p] > Limit
        /\ ~log[Ip(p)][seen[p]].ok
        /\ cleanedAt[p] - log[Ip(p)][seen[p]].ts > Window
        /\ ret[p]

\* C5: the wrapped handler runs only for a request isAllowed answered true,
\* then exactly once and with the request as it arrived; a request
\* isAllowed answered false gets 429 and never reaches the handler.
AdmissionGate ==
    \A p \in Procs :
        /\ pc[p] # "idle" => status[p] = 0 /\ served[p] = << >>
        /\ (pc[p] = "idle" /\ req[p] # NoReq) =>
              IF ret[p]
              THEN status[p] = 200 /\ served[p] = <<req[p]>>
              ELSE status[p] = 429 /\ served[p] = << >>

\* C5 witness: one request was refused with 429 and another one reached
\* the handler.
BothOutcomes ==
    \E p, q \in Procs :
        /\ pc[p] = "idle" /\ status[p] = 429 /\ served[p] = << >>
        /\ pc[q] = "idle" /\ status[q] = 200 /\ served[q] = <<req[q]>>

\* C6: as long as less than 60 seconds have passed since the first recorded
\* call of an identity, its list holds exactly one timestamp per recorded
\* call, and while no more than 60 calls are recorded all of them were
\* answered true.
NoLostWrites ==
    \A ip \in RemoteAddrs :
        (Len(log[ip]) > 0 /\ clock - log[ip][1].ts < Window) =>
            /\ Len(Lookup(requests, ip)) = Len(log[ip])
            /\ Len(log[ip]) <= Limit => \A k \in DOMAIN log[ip] : log[ip][k].ok
            /\ \A p \in Procs :
                  (pc[p] = "gate" /\ Ip(p) = ip /\ slot[p] <= Limit) => ret[p]

\* C6 witness: two calls of one identity ran their prune steps before
\* either recorded, the clock advanced, and the identity counts exactly 60
\* calls, all within less than 60 seconds.
SixtyWithRace ==
    \E p, q \in Procs :
        /\ p # q
        /\ pc[p] = "gate" /\ pc[q] = "gate"
        /\ Ip(p) = Ip(q)
        /\ seen[p] = seen[q]
        /\ ret[p] /\ ret[q]
        /\ Len(log[Ip(p)]) = Limit
        /\ Len(requests[Ip(p)]) = Limit
        /\ clock - log[Ip(p)][1].ts \in 1 .. (Window - 1)

\* C7 as stated: while a call is between its prune step and its record
\* step, no other call is inside a section that accesses the map.
PruneRecordAtomic ==
    \A p, q \in Procs :
        (p # q /\ pc[p] = "record_lock") => pc[q] \notin {"clean", "record"}

\* C8: every identity's list, and every answer given to it, is the one a
\* limiter serving that identity alone gives at the same clock readings.
IdentitiesIndependent ==
    /\ \A ip \in RemoteAddrs : Lookup(requests, ip) = Lookup(solo[ip], ip)
    /\ \A p \in Procs : pc[p] = "gate" => ret[p] = alone[p]

\* C8 witness: an identity is admitted while another identity's budget is
\* exhausted, their calls interleaved.
AdmittedBesideExhausted ==
    \E p \in Procs : \E ip \in RemoteAddrs :
        /\ pc[p] = "gate"
        /\ Ip(p) # ip
        /\ ret[p]
        /\ Len(Lookup(requests, ip)) > Limit
        /\ \E q \in Procs : Ip(q) = ip /\ pc[q] \in {"record_lock", "record", "gate"}

\* C9 as stated: a call of an identity none of whose recorded timestamps
\* is inside the window at the call's prune step is answered true and
\* leaves the list with exactly one entry.
FreshCallLeavesOne ==
    \A p \in Procs :
        (/\ pc[p] = "gate"
         /\ \A i \in 1 .. seen[p] : log[Ip(p)][i].ts <= cleanedAt[p] - Window)
        => (ret[p] /\ left[p] = 1)

\* C10: a goroutine holds the lock exactly inside the two critical
\* sections, so it never asks for the lock while holding it, and every
\* call that started returns its answer to withRateLimit, which answers
\* the request.
CallsReturn ==
    /\ [](\A p \in Procs : (mu = p) <=> (pc[p] \in {"clean", "record"}))
    /\ \A p \in Procs : (pc[p] = "clean_lock") ~> (pc[p] = "gate")
    /\ \A p \in Procs : (pc[p] = "gate") ~> (pc[p] = "idle")

\* C10 witness: a call waits for the lock that another call holds.
WaitsForLock ==
    \E p, q \in Procs :
        /\ pc[p] \in {"clean_lock", "record_lock"}
        /\ pc[q] \in {"clean", "record"}
        /\ mu = q

\* The IP address of a RemoteAddr, which has the form "IP:port".
HostOf(a) ==
    CASE a = "10.0.0.1:40001" -> "10.0.0.1"
      [] a = "10.0.0.1:40002" -> "10.0.0.1"

\* The recorded calls made from IP address h, over all its ports, that lie
\* in (t - Window, t] and were answered true.
AdmittedFromHost(h, t) ==
    {c \in UNION {{a} \X DOMAIN log[a] : a \in RemoteAddrs} :
        /\ HostOf(c[1]) = h
        /\ log[c[1]][c[2]].ok
        /\ log[c[1]][c[2]].ts > t - Window
        /\ log[c[1]][c[2]].ts <= t}

\* C12 as stated: the requests of one IP address count against one budget
\* whatever their source port, so at most 60 requests of an IP address are
\* admitted within a minute and the ones beyond get 429.
BudgetPerIPAddress ==
    \A p \in Procs :
        pc[p] = "gate" =>
            Cardinality(AdmittedFromHost(HostOf(Ip(p)), clock)) <= Limit

\* C20 as stated: a call that prunes and records at the same clock reading
\* decides on the timestamps recorded no more than 60 seconds before it,
\* its own included: one exactly 60 seconds old is kept and counted.
SixtyOldKept ==
    \A p \in Procs :
        (pc[p] = "gate" /\ log[Ip(p)][slot[p]].ts = cleanedAt[p]) =>
            left[p] = Cardinality({i \in 1 .. slot[p] :
                          log[Ip(p)][i].ts >= cleanedAt[p] - Window})

\* C20 amended: a call that prunes and records at the same clock reading
\* decides on the timestamps recorded less than 60 seconds before it, its
\* own included: one exactly 60 seconds old is removed and not counted.
SixtyOldPruned ==
    \A p \in Procs :
        (pc[p] = "gate" /\ log[Ip(p)][slot[p]].ts = cleanedAt[p]) =>
            left[p] = Cardinality({i \in 1 .. slot[p] :
                          log[Ip(p)][i].ts > cleanedAt[p] - Window})

\* C20 witness: a call prunes 60 timestamps that are exactly 60 seconds
\* old, keeps one that is newer, and is admitted with two entries left.
BoundaryPruned ==
    \E p \in Procs :
        /\ pc[p] = "gate"
        /\ seen[p] = Limit + 1
        /\ \A i \in 1 .. Limit : log[Ip(p)][i].ts = cleanedAt[p] - Window
        /\ log[Ip(p)][Limit + 1].ts = cleanedAt[p]
        /\ left[p] = 2
        /\ ret[p]

\* The timestamps stored for ip that are inside the window now.
InWindow(ip) == SelectSeq(Lookup(requests, ip), LAMBDA t : After(t, clock - Window))

\* C11 as stated: for every request to /ping, /download, /upload or
\* /status (preflight requests left aside), the endpoint's handler is
\* entered only after withRateLimit was, and no handler runs for a caller
\* whose list exceeds the limit: that request gets 429.
EveryEndpointLimited ==
    (httpReq.Path \in Endpoints /\ httpReq.Method # "OPTIONS") =>
        /\ \A i \in DOMAIN trail :
              trail[i] \in EndpointHandlers =>
                  \E j \in 1 .. (i - 1) : trail[j] = "withRateLimit"
        /\ chain \in EndpointHandlers =>
              Len(InWindow(httpReq.RemoteAddr)) <= Limit

\* C18: once enableCORS has run, the response carries its headers whatever
\* answers the request; a preflight request is answered 200 with nothing
\* entered after enableCORS, and for any other method the next handler,
\* logRequest, is entered exactly once.
CorsOnEveryResponse ==
    (Len(trail) > 0 /\ trail[1] = "enableCORS" /\ chain # "enableCORS") =>
        /\ httpResp.Header = CorsHeaders
        /\ httpResp.Header["Access-Control-Allow-Origin"] = "http://localhost:5173"
        /\ IF httpReq.Method = "OPTIONS"
           THEN /\ trail = <<"enableCORS">>
                /\ chain = "idle"
                /\ httpResp.Code = 200
           ELSE /\ Cardinality({i \in DOMAIN trail : trail[i] = "logRequest"}) = 1
                /\ trail[2] = "logRequest"

\* C18 witness: a preflight request to a rate-limited route is answered
\* 200 by enableCORS itself, with the CORS headers, while the caller's
\* list exceeds the limit.
PreflightAnswered ==
    /\ chain = "idle"
    /\ httpReq.Method = "OPTIONS"
    /\ httpReq.Path \in Limited
    /\ httpResp.Code = 200
    /\ httpResp.Header = CorsHeaders
    /\ Len(Lookup(requests, httpReq.RemoteAddr)) > Limit

\* C13: in every state of downloadHandler's loop the byte count, which is
\* the number of payload bytes written, is at most downloadSize; the loop
\* ends; and a GET request that met no error is answered 200 with
\* Content-Length "10485760" and exactly downloadSize payload bytes.
DownloadWritesAll ==
    /\ [](handler = "downloadHandler" =>
            /\ bytesWritten <= downloadSize
            /\ hResp.Payload = bytesWritten)
    /\ []((handler = "downloadHandler" /\ hpc = "done"
             /\ hReq.Method = "GET" /\ err = "nil") =>
            /\ hResp.Code = 200
            /\ hResp.ContentLength = <<"1", "0", "4", "8", "5", "7", "6", "0">>
            /\ bytesWritten = downloadSize
            /\ hResp.Payload = downloadSize
            /\ hResp.Text = "")
    /\ (handler = "downloadHandler" /\ hpc = "loop") ~> (hpc = "done")

\* C13 witness: a GET download ran its loop to the end.
DownloadComplete ==
    /\ handler = "downloadHandler"
    /\ hpc = "done"
    /\ hReq.Method = "GET"
    /\ err = "nil"
    /\ hResp.Payload = 10 * 1024 * 1024

\* C14: a POST upload whose body was read to its end without error is
\* answered 200 with BytesUploaded the sum of the bytes of all its reads.
UploadCountsBody ==
    (/\ handler = "uploadHandler" /\ hpc = "done"
     /\ hReq.Method = "POST" /\ hReq.ContentLength # 0 /\ err = "nil") =>
        /\ hResp.Code = 200
        /\ Len(hResp.Json) = 1
        /\ hResp.Json[1].BytesUploaded = Total(hReq.Body)

\* C14 witness: a body delivered in reads of different sizes, with no
\* length declared, was counted.
UploadInUnequalReads ==
    /\ handler = "uploadHandler"
    /\ hpc = "done"
    /\ hReq.ContentLength = -1
    /\ Len(hReq.Body) >= 2
    /\ hReq.Body[1].n # hReq.Body[2].n
    /\ hResp.Code = 200
    /\ hResp.Json[1].BytesUploaded = Total(hReq.Body)
    /\ hResp.Json[1].BytesUploaded > BufferLen

\* C15: a POST upload with content length 0 is answered 400 with the body
\* unread, and one whose body fails to be read is answered 500; neither
\* response carries an UploadResponse.
UploadRejects ==
    (handler = "uploadHandler" /\ hpc = "done" /\ hReq.Method = "POST") =>
        /\ hReq.ContentLength = 0 =>
              hResp.Code = 400 /\ pos = 0 /\ hResp.Json = << >>
        /\ err # "nil" =>
              hResp.Code = 500 /\ hResp.Json = << >>
        /\ hResp.Json # << >> => hResp.Code = 200

\* C15 witness: the body failed after some of it was read, and the answer
\* is 500.
UploadReadFailed ==
    /\ handler = "uploadHandler"
    /\ hpc = "done"
    /\ hReq.Method = "POST"
    /\ err = "ErrUnexpectedEOF"
    /\ bytesUploaded > 0
    /\ hResp.Code = 500

\* C16: downloadHandler answers a request that is not GET with 405, no
\* header set and no payload byte written; uploadHandler answers one that
\* is not POST with 405 and the body unread, whatever its declared length;
\* neither handler goes past its first step for such a request.
MethodCheckedFirst ==
    /\ (handler = "downloadHandler" /\ hReq.Method # "GET" /\ hpc # "start") =>
          /\ hpc = "done"
          /\ hResp.Code = 405
          /\ hResp.Payload = 0
          /\ hResp.ContentLength = << >>
    /\ (handler = "uploadHandler" /\ hReq.Method # "POST" /\ hpc # "start") =>
          /\ hpc = "done"
          /\ hResp.Code = 405
          /\ pos = 0
          /\ hResp.Json = << >>

\* C16 witness: a GET request with content length 0 to uploadHandler is
\* answered 405, not 400.
WrongMethodEmptyBody ==
    /\ handler = "uploadHandler"
    /\ hpc = "done"
    /\ hReq.Method = "GET"
    /\ hReq.ContentLength = 0
    /\ hResp.Code = 405

\* C17 as stated: every successful upload of a body that is not empty
\* reports a Duration greater than zero.
DurationPositive ==
    (/\ handler = "uploadHandler" /\ hpc = "done"
     /\ hResp.Code = 200 /\ Total(hReq.Body) > 0) =>
        \A i \in DOMAIN hResp.Json : hResp.Json[i].Duration > 0

\* C19: isRunning is true exactly while a run of runSpeedTest is between
\* its start and its end, during which no click can start another run;
\* outside a run currentTest is null and progress is 0; and every run that
\* started ends, by success or by a throw, with isRunning false.
RunEnds ==
    /\ [](testState.isRunning <=> fpc # "idle")
    /\ [](fpc # "idle" => ~Clickable)
    /\ [](~testState.isRunning =>
            testState.currentTest = "null" /\ testState.progress = 0)
    /\ testState.isRunning ~>
          (/\ ~testState.isRunning
           /\ testState.currentTest = "null"
           /\ testState.progress = 0
           /\ testState.isConnected => Clickable)

\* C19 witness: a run that had shown download progress ended by a throw
\* and left the button enabled.
RunFailedAndReset ==
    /\ fpc = "idle"
    /\ Len(replies) = 2
    /\ totalBytes > 0
    /\ testState.error = "Network error"
    /\ ~testState.isRunning
    /\ testState.currentTest = "null"
    /\ testState.progress = 0
    /\ testState.isConnected
    /\ Clickable

\* The calls of ip's history whose timestamps are stored now: the list is
\* the tail of the history, clean removing from its front only.
Stored(ip) ==
    (Len(log[ip]) - Len(Lookup(requests, ip)) + 1) .. Len(log[ip])

\* C21 as stated: the list stored for an identity never holds more than 61
\* timestamps.
AtMostSixtyOne ==
    \A ip \in RemoteAddrs : Len(Lookup(requests, ip)) <= Limit + 1

\* C21 amended: the list stored for an identity holds the timestamps of
\* its latest recorded calls, one per call, refused calls included; at
\* most 60 of them are of admitted calls, and the list is longer than 61
\* only by the timestamps of refused calls.
AtMostSixtyAdmitted ==
    \A ip \in RemoteAddrs :
        /\ Len(Lookup(requests, ip)) <= Len(log[ip])
        /\ \A i \in Stored(ip) :
              log[ip][i].ts = requests[ip][i - Len(log[ip]) + Len(requests[ip])]
        /\ Cardinality({i \in Stored(ip) : log[ip][i].ok}) <= Limit
        /\ Len(Lookup(requests, ip)) > Limit + 1 =>
              Cardinality({i \in Stored(ip) : ~log[ip][i].ok}) >= 2

\* C21 witness: the list of one identity holds 62 timestamps, 60 of
\* admitted calls and 2 of refused ones.
SixtyTwoStored ==
    \E ip \in RemoteAddrs :
        /\ Len(Lookup(requests, ip)) = Limit + 2
        /\ Cardinality({i \in Stored(ip) : log[ip][i].ok}) = Limit
        /\ Cardinality({i \in Stored(ip) : ~log[ip][i].ok}) = 2

\* C22 as stated: a call is answered false only if more than 60 of the
\* identity's recorded timestamps, its own included, lie within the 60
\* seconds that end at its own timestamp, whatever ran between its prune
\* step and its record step.
NoFalseRejection ==
    \A p \in Procs :
        (pc[p] = "gate" /\ ~ret[p]) =>
            Cardinality({i \in 1 .. slot[p] :
                log[Ip(p)][i].ts >= log[Ip(p)][slot[p]].ts - Window}) > Limit

\* C23: when more than 60 calls of an identity with no earlier history are
\* recorded within less than 60 seconds, in whatever order their steps
\* interleave, exactly the first 60 to record are answered true and every
\* later one false.
FirstSixtyToRecord ==
    \A ip \in RemoteAddrs :
        (/\ Len(log[ip]) > Limit
         /\ log[ip][Len(log[ip])].ts - log[ip][1].ts < Window) =>
            /\ {k \in DOMAIN log[ip] : log[ip][k].ok} = 1 .. Limit
            /\ Cardinality({k \in DOMAIN log[ip] : ~log[ip][k].ok}) =
                  Len(log[ip]) - Limit

\* C23 witness: two calls of one identity pruned before either recorded,
\* with 59 calls recorded before them; the first of the two to record is
\* the 60th and is admitted, the other is the 61st and is refused.
RaceForLastSlot ==
    \E p, q \in Procs :
        /\ pc[p] = "gate" /\ pc[q] = "gate"
        /\ Ip(p) = Ip(q)
        /\ seen[p] = Limit - 1 /\ seen[q] = Limit - 1
        /\ slot[p] = Limit /\ ret[p]
        /\ slot[q] = Limit + 1 /\ ~ret[q]
        /\ log[Ip(p)][Limit + 1].ts - log[Ip(p)][1].ts \in 1 .. (Window - 1)

\* The sections of a call that read or write rl.requests: the body of
\* clean and the append and decision of isAllowed.
MapSections == {"clean", "record"}

\* C24: a goroutine inside a section that reads or writes the map holds
\* the lock, no two goroutines are inside such sections at once, and every
\* step that changes the map is taken by the holder of the lock from
\* inside its section (a loop of calls made by one goroutine while no
\* other call is in flight takes and releases the lock within each call).
MutualExclusion ==
    /\ [](\A p \in Procs : pc[p] \in MapSections => mu = p)
    /\ [](\A p, q \in Procs :
            (pc[p] \in MapSections /\ pc[q] \in MapSections) => p = q)
    /\ [][requests' # requests =>
            \/ mu \in Procs /\ pc[mu] \in MapSections /\ mu' = NoProc
            \/ /\ looped' # looped
               /\ mu = NoProc
               /\ \A p \in Procs : pc[p] = "idle"]_vars

\* C24 witness: a call is inside clean, holding the lock, while another
\* call of the same identity has pruned and waits to record.
PrunerExcludesRecorder ==
    \E p, q \in Procs :
        /\ pc[p] = "clean" /\ mu = p
        /\ pc[q] = "record_lock"
        /\ Ip(p) = Ip(q)
        /\ Ip(p) \in DOMAIN requests

\* The timestamps of list are in non-decreasing order.
NonDecreasing(list) ==
    \A i \in 1 .. (Len(list) - 1) : list[i] <= list[i + 1]

\* C25: the timestamps stored for every identity are in non-decreasing
\* order in every reachable state, and so is what clean's loop, filtering
\* the slice in place, would leave of them now: the kept timestamps in
\* their old order.
StoredInTimeOrder ==
    \A ip \in DOMAIN requests :
        LET valid == FilterInPlace(requests[ip], 1, 0, clock - Window) IN
        /\ NonDecreasing(requests[ip])
        /\ NonDecreasing(valid)
        /\ valid = SelectSeq(requests[ip], LAMBDA t : After(t, clock - Window))
        /\ \A i \in DOMAIN requests[ip] : requests[ip][i] <= clock

\* C25 witness: of two calls of one identity in flight together, the
\* first recorded behind 60 older timestamps; the second then pruned
\* those 60 from the front of the list, in place, and recorded behind the
\* first one's timestamp, which is older than its own.
PrunedInPlaceInOrder ==
    \E p, q \in Procs :
        /\ pc[p] = "gate" /\ pc[q] = "gate"
        /\ Ip(p) = Ip(q)
        /\ slot[q] = slot[p] + 1
        /\ left[p] = Limit + 1
        /\ left[q] = 2
        /\ requests[Ip(q)][1] = log[Ip(p)][slot[p]].ts
        /\ requests[Ip(q)][1] < requests[Ip(q)][2]

\* C26: every key of the map has at least one timestamp, in every
\* reachable state (the lock free or held), and a prune step that finds
\* none of the identity's timestamps inside the window leaves the map
\* without the identity's key until a call records again.
NoEmptyList ==
    /\ \A ip \in DOMAIN requests : Len(requests[ip]) >= 1
    /\ \A p \in Procs :
          (/\ pc[p] = "record_lock"
           /\ Len(log[Ip(p)]) = seen[p]
           /\ \A i \in 1 .. seen[p] : ~After(log[Ip(p)][i].ts, cleanedAt[p] - Window))
          => Ip(p) \notin DOMAIN requests

\* C26 witness: the prune step of a call removed the 60 timestamps of its
\* identity and deleted the key, while the other identity's key stays.
KeyDeleted ==
    \E p \in Procs :
        /\ pc[p] = "record_lock"
        /\ mu = NoProc
        /\ seen[p] = Limit
        /\ Len(log[Ip(p)]) = seen[p]
        /\ Ip(p) \notin DOMAIN requests
        /\ DOMAIN requests # {}

\* s is the head of t.
IsPrefix(s, t) ==
    /\ Len(s) <= Len(t)
    /\ \A i \in DOMAIN s : s[i] = t[i]

\* C27: a step changes the list of an identity only if it is taken, from
\* inside one of its two sections, by a call of that identity (or is that
\* identity's loop of calls), and takes entries away from it only if it
\* is the prune step of such a call: no step of another identity's call
\* and no advance of the clock changes it, so the timestamps of an identity
\* that is not checked again stay stored when they are stale.
OwnEntryOnly ==
    [][\A ip \in RemoteAddrs :
          Lookup(requests, ip)' # Lookup(requests, ip) =>
              \/ /\ mu \in Procs
                 /\ Ip(mu) = ip
                 /\ pc[mu] \in MapSections
                 /\ ~IsPrefix(Lookup(requests, ip), Lookup(requests, ip)') =>
                        pc[mu] = "clean"
              \/ /\ looped' # looped
                 /\ ip = LoopAddr]_vars

\* C27 witness: a call of one identity pruned and was admitted at a clock
\* reading at which the 60 timestamps of another identity are all stale,
\* and they are still stored.
StaleEntriesKept ==
    \E p \in Procs : \E ip \in RemoteAddrs :
        /\ pc[p] = "gate"
        /\ Ip(p) # ip
        /\ ret[p]
        /\ Len(Lookup(requests, ip)) = Limit
        /\ \A i \in 1 .. Limit : ~After(requests[ip][i], clock - Window)
        /\ cleanedAt[p] = clock

\* How many times the function f was entered for the request in service.
Entered(f) == Cardinality({i \in DOMAIN trail : trail[i] = f})

\* C28: a preflight request to a registered route never enters
\* withRateLimit and is never answered 429, and no step taken while it is
\* in service changes the limiter's map or adds a call to its history;
\* every other request to /ping, /download or /upload that got past
\* logRequest entered withRateLimit once, and each entry is one call of
\* isAllowed: one record more in the caller's history, made nowhere else
\* in the chain.
PreflightSkipsLimiter ==
    /\ [](httpReq.Method = "OPTIONS" /\ httpReq.Path \in Endpoints =>
            /\ Entered("withRateLimit") = 0
            /\ httpResp.Code \in {0, 200}
            /\ chain = "idle" => httpResp.Code = 200)
    /\ [][(httpReq.Method = "OPTIONS" /\ chain # "idle") =>
            UNCHANGED <<requests, log>>]_vars
    /\ []((/\ httpReq.Method # "OPTIONS"
           /\ httpReq.Path \in Limited
           /\ chain \in EndpointHandlers \cup {"idle"}) =>
            Entered("withRateLimit") = 1)
    /\ [][IF chain = "withRateLimit" /\ chain' # chain
          THEN /\ Len(log'[httpReq.RemoteAddr]) = Len(log[httpReq.RemoteAddr]) + 1
               /\ chain' # "withRateLimit"
          ELSE chain # "idle" => log' = log]_vars

\* C28 witness: a client whose last request was the 61st of the minute and
\* got 429 is answered 200 for a preflight request to a limited route, and
\* its history holds no call for the preflight.
PreflightAfterRefusal ==
    /\ chain = "idle"
    /\ httpReq.Method = "OPTIONS"
    /\ httpReq.Path \in Limited
    /\ httpResp.Code = 200
    /\ trail = <<"enableCORS">>
    /\ calls = 2
    /\ Len(log[httpReq.RemoteAddr]) = Limit + 1
    /\ ~log[httpReq.RemoteAddr][Limit + 1].ok
    /\ Len(Lookup(requests, httpReq.RemoteAddr)) = Limit + 1

\* The stage of a run that each await of runSpeedTest belongs to.
StageOf(at) ==
    CASE at \in {"ping_fetch", "ping_json"} -> "ping"
      [] at \in {"download_fetch", "download_read"} -> "download"
      [] at \in {"upload_fetch", "upload_json"} -> "upload"
      [] at = "idle" -> "null"

\* The await that follows each await when it settles without a throw.
AwaitAfter(at) ==
    CASE at = "idle" -> "ping_fetch"
      [] at = "ping_fetch" -> "ping_json"
      [] at = "ping_json" -> "download_fetch"
      [] at = "download_fetch" -> "download_read"
      [] at = "download_read" -> "upload_fetch"
      [] at = "upload_fetch" -> "upload_json"
      [] at = "upload_json" -> "idle"

\* C29: currentTest names the stage the run stands in; a run moves from
\* one await to the next in the order ping, download, upload, or ends at
\* once (a throw skips every later stage); the results are cleared when a
\* run starts, are null all through it, and are set only by the step that
\* completes the upload stage, three responses having arrived.
StagesInOrder ==
    /\ [](testState.currentTest = StageOf(fpc))
    /\ [](fpc # "idle" => results = << >>)
    /\ [](results # << >> => Len(replies) = 3)
    /\ [][fpc' # fpc => fpc' \in {AwaitAfter(fpc), "idle"}]_vars
    /\ [][results' # results =>
            \/ fpc = "idle" /\ fpc' = "ping_fetch" /\ results' = << >>
            \/ fpc = "upload_json" /\ fpc' = "idle" /\ results = << >>]_vars
    /\ [][(fpc # "idle" /\ fpc' = "idle" /\ fpc # "upload_json") =>
            results' = << >> /\ testState'.error # "null"]_vars

\* C29 witness: a run has completed its ping and download stages, bytes
\* counted, and stands at the fetch of its upload stage with no results
\* yet.
UploadStageReached ==
    /\ fpc = "upload_fetch"
    /\ testState.currentTest = "upload"
    /\ testState.progress = 0
    /\ Len(replies) = 2
    /\ totalBytes > 0
    /\ results = << >>

\* C30 as stated: results are published only by a run whose three
\* responses (ping, download, upload) were all OK; a run that received a
\* response that is not OK ends with results null.
ResultsOnlyIfAllOk ==
    /\ results # << >> =>
          /\ Len(replies) = 3
          /\ \A i \in 1 .. 3 : Ok(replies[i])
    /\ (fpc = "idle" /\ \E i \in DOMAIN replies : ~Ok(replies[i])) =>
          results = << >>

====
